---- MODULE Spec2Model ----
(***************************************************************************)
(* State-machine model of the two InsightFace helper scripts               *)
(*   scripts/face_detect_insightface.py        (mode = "single")           *)
(*   scripts/face_detect_insightface_batch.py  (mode = "batch")            *)
(* One run of a script is one behaviour.  The external collaborators (the  *)
(* file system, cv2, the FaceAnalysis detector) are nondeterministic: a    *)
(* call either returns or raises an Exception.  A detector build is either *)
(* silent or prints diagnostics through Python's sys.stdout on every call  *)
(* (verbose).                                                              *)
(***************************************************************************)
EXTENDS Integers, Sequences, FiniteSets, TLC

VARIABLES mode, argv, disk, env, verbose, pc, imported, sysStdout, out, err, buf,
          status, fa, calls, cfg, faces, results, idx, lastGet, tierLog

vars == <<mode, argv, disk, env, verbose, pc, imported, sysStdout, out, err, buf,
          status, fa, calls, cfg, faces, results, idx, lastGet, tierLog>>

(***************************************************************************)
(* Bounds of the model.                                                    *)
(***************************************************************************)
MaxLen == 5
MaxFiles == 2
MaxFaces == 1

(***************************************************************************)
(* Strings are sequences of one-character strings.  The defaults that are  *)
(* never taken apart character by character are single opaque tokens.      *)
(***************************************************************************)
Chars == {"0", "1", "-", ",", " ", "a"}

EnvNames == {"LUMINA_INSIGHTFACE_MODEL", "LUMINA_INSIGHTFACE_PROVIDERS",
             "LUMINA_INSIGHTFACE_CTX_ID", "LUMINA_INSIGHTFACE_DET_SIZE"}

Str(n) == UNION {[1..k -> Chars] : k \in 0..n}

DefaultModel == <<"buffalo_l">>
DefaultProvider == <<"CPUExecutionProvider">>
DefaultCtxId == <<"-", "1">>
DefaultDetSize == <<"6", "4", "0", ",", "6", "4", "0">>

\* os.environ.get(name): None when the variable is not set
Unset == [present |-> FALSE, val |-> <<>>]
SetTo(s) == [present |-> TRUE, val |-> s]

\* str.strip()
RECURSIVE lstrip(_)
lstrip(s) == IF s # <<>> /\ Head(s) = " " THEN lstrip(Tail(s)) ELSE s

RECURSIVE rstrip(_)
rstrip(s) == IF s # <<>> /\ s[Len(s)] = " " THEN rstrip(SubSeq(s, 1, Len(s) - 1)) ELSE s

strip(s) == rstrip(lstrip(s))

\* str.split(','): one part more than there are separators
RECURSIVE split(_, _)
split(s, sep) ==
    IF \E i \in 1..Len(s) : s[i] = sep
    THEN LET i == CHOOSE k \in 1..Len(s) : s[k] = sep /\ \A j \in 1..(k - 1) : s[j] # sep
         IN  <<SubSeq(s, 1, i - 1)>> \o split(SubSeq(s, i + 1, Len(s)), sep)
    ELSE <<s>>

IsDigit(c) == c \in {"0", "1", "4", "6"}

DigitVal(c) == CASE c = "0" -> 0 [] c = "1" -> 1 [] c = "4" -> 4 [] c = "6" -> 6

RECURSIVE digits_value(_)
digits_value(d) ==
    IF d = <<>> THEN 0
    ELSE digits_value(SubSeq(d, 1, Len(d) - 1)) * 10 + DigitVal(d[Len(d)])

\* int(str): surrounding blanks, an optional sign, at least one digit;
\* anything else raises ValueError (ok = FALSE)
int(s) ==
    LET t == strip(s)
        neg == t # <<>> /\ t[1] = "-"
        d == IF neg THEN Tail(t) ELSE t
    IN  IF d # <<>> /\ \A i \in 1..Len(d) : IsDigit(d[i])
        THEN [ok |-> TRUE, val |-> IF neg THEN 0 - digits_value(d) ELSE digits_value(d)]
        ELSE [ok |-> FALSE, val |-> 0]

_get_env(e, name, default) ==
    LET v == e[name]
    IN  IF v.present /\ strip(v.val) # <<>> THEN v.val ELSE default

RECURSIVE strip_nonempty(_)
strip_nonempty(parts) ==
    IF parts = <<>> THEN <<>>
    ELSE IF strip(Head(parts)) # <<>>
         THEN <<strip(Head(parts))>> \o strip_nonempty(Tail(parts))
         ELSE strip_nonempty(Tail(parts))

_parse_providers(env_val) ==
    LET parts == strip_nonempty(split(env_val, ","))
    IN  IF parts = <<>> THEN <<DefaultProvider>> ELSE parts

det_size_accept_Mut(w, h) == TRUE

\* the test `w > 0 and h > 0`
det_size_accept(w, h) == w > 0 /\ h > 0

_parse_det_size(env_val) ==
    LET parts == split(env_val, ",")
    IN  IF Len(parts) # 2 THEN <<640, 640>>
        ELSE LET w == int(strip(parts[1]))
                 h == int(strip(parts[2]))
             IN  IF w.ok /\ h.ok /\ det_size_accept(w.val, h.val)
                 THEN <<w.val, h.val>>
                 ELSE <<640, 640>>

parse_ctx_id(e) ==
    LET r == int(_get_env(e, "LUMINA_INSIGHTFACE_CTX_ID", DefaultCtxId))
    IN  IF r.ok THEN r.val ELSE 0 - 1

\* the configuration block at the head of the redirected section
ResolveConfig(e) ==
    [model_name |-> _get_env(e, "LUMINA_INSIGHTFACE_MODEL", DefaultModel),
     providers  |-> _parse_providers(_get_env(e, "LUMINA_INSIGHTFACE_PROVIDERS", DefaultProvider)),
     ctx_id     |-> parse_ctx_id(e),
     det_size   |-> _parse_det_size(_get_env(e, "LUMINA_INSIGHTFACE_DET_SIZE", DefaultDetSize))]

NoConfig == [model_name |-> <<>>, providers |-> <<>>, ctx_id |-> 0, det_size |-> <<0, 0>>]

(***************************************************************************)
(* Face records returned by the detector, by the shape of each attribute.  *)
(*   bbox: "iter"    float(x) for x in f.bbox works                        *)
(*         "tolist"  direct coercion raises, f.bbox.tolist() works         *)
(*         "bad"     both raise                                            *)
(*   emb:  "noattr"  no embedding attribute                                *)
(*         "none"    embedding is None                                     *)
(*         "empty"   array of size 0                                       *)
(*         "ndarray" non-empty array                                       *)
(*         "list"    plain sequence without a tolist method                *)
(*         "bad"     tolist and direct coercion both raise                 *)
(***************************************************************************)
Face(b, s, e) == [bbox |-> b, score |-> s, emb |-> e]

FaceSet == {Face("iter", "det_score", "ndarray"), Face("tolist", "score", "list"),
            Face("iter", "none", "noattr"), Face("iter", "det_score", "none"),
            Face("iter", "det_score", "empty"), Face("bad", "det_score", "ndarray"),
            Face("iter", "det_score", "bad")}

FaceSeqs == UNION {[1..k -> FaceSet] : k \in 0..MaxFaces}

\* JSON values that may be null
JNull == [t |-> "null", v |-> <<>>]
JList(v) == [t |-> "list", v |-> v]

Attempt(tier, threw) == [tier |-> tier, threw |-> threw]

bbox_of_Mut(f) ==
    IF f.bbox \in {"iter", "tolist"}
    THEN [ok |-> TRUE, val |-> <<1, 2, 3, 4>>, log |-> <<Attempt("bbox.tolist", FALSE)>>]
    ELSE [ok |-> FALSE, val |-> <<>>,
          log |-> <<Attempt("bbox.tolist", TRUE), Attempt("bbox.direct", TRUE)>>]

\* try: [float(x) for x in f.bbox]  except: [float(x) for x in f.bbox.tolist()]
bbox_of(f) ==
    IF f.bbox = "iter"
    THEN [ok |-> TRUE, val |-> <<1, 2, 3, 4>>, log |-> <<Attempt("bbox.direct", FALSE)>>]
    ELSE IF f.bbox = "tolist"
    THEN [ok |-> TRUE, val |-> <<1, 2, 3, 4>>,
          log |-> <<Attempt("bbox.direct", TRUE), Attempt("bbox.tolist", FALSE)>>]
    ELSE [ok |-> FALSE, val |-> <<>>,
          log |-> <<Attempt("bbox.direct", TRUE), Attempt("bbox.tolist", TRUE)>>]

\* float(getattr(f, 'det_score', getattr(f, 'score', 0.0)))
score_of(f) == CASE f.score = "det_score" -> 9 [] f.score = "score" -> 8 [] OTHER -> 0

\* emb = None; if hasattr(...) and f.embedding is not None:
\*   try: f.embedding.tolist()  except: direct coercion
embedding_of(f) ==
    IF f.emb \in {"noattr", "none"}
    THEN [ok |-> TRUE, val |-> JNull, log |-> <<>>]
    ELSE IF f.emb = "empty"
    THEN [ok |-> TRUE, val |-> JList(<<>>), log |-> <<Attempt("emb.tolist", FALSE)>>]
    ELSE IF f.emb = "ndarray"
    THEN [ok |-> TRUE, val |-> JList(<<5>>), log |-> <<Attempt("emb.tolist", FALSE)>>]
    ELSE IF f.emb = "list"
    THEN [ok |-> TRUE, val |-> JList(<<6>>),
          log |-> <<Attempt("emb.tolist", TRUE), Attempt("emb.direct", FALSE)>>]
    ELSE [ok |-> FALSE, val |-> JNull,
          log |-> <<Attempt("emb.tolist", TRUE), Attempt("emb.direct", TRUE)>>]

or_empty_Mut(emb) == emb

\* emb or []
or_empty(emb) == IF emb.t = "null" \/ emb.v = <<>> THEN JList(<<>>) ELSE emb

\* body of the loop `for f in faces`
NormalizeFace(f) ==
    LET b == bbox_of(f)
        e == embedding_of(f)
    IN  IF ~b.ok THEN [ok |-> FALSE, face |-> <<>>, log |-> b.log]
        ELSE IF ~e.ok THEN [ok |-> FALSE, face |-> <<>>, log |-> b.log \o e.log]
        ELSE [ok |-> TRUE,
              face |-> <<[box |-> b.val, score |-> score_of(f), embedding |-> or_empty(e.val)]>>,
              log |-> b.log \o e.log]

\* the loop `for f in faces: ... out.append(...)`; the first raise ends it
RECURSIVE NormalizeFaces(_)
NormalizeFaces(fs) ==
    IF fs = <<>> THEN [ok |-> TRUE, out |-> <<>>, log |-> <<>>]
    ELSE LET h == NormalizeFace(Head(fs))
         IN  IF ~h.ok THEN [ok |-> FALSE, out |-> <<>>, log |-> <<h.log>>]
             ELSE LET r == NormalizeFaces(Tail(fs))
                  IN  [ok |-> r.ok,
                       out |-> IF r.ok THEN h.face \o r.out ELSE <<>>,
                       log |-> <<h.log>> \o r.log]

(***************************************************************************)
(* Batch manifest.                                                         *)
(*   kind "absent"  no batch.json          kind "badjson" json.load raises *)
(*   kind "scalar"  a JSON number, null    kind "string" / "array" / "object" *)
(*   hasFiles: the value of `'files' in batch_config` for the last three   *)
(*   iterable: batch_config['files'] is a list                             *)
(* An entry of the list is an object with both keys ("ok"), one without    *)
(* the photoId key ("noPhotoId") or one without the filename key.          *)
(***************************************************************************)
FileStates == {"missing", "unreadable", "image"}

Entry(form, id, file) == [form |-> form, photoId |-> id, file |-> file]

EntrySet == {Entry("ok", "p1", "image"), Entry("ok", "p2", "missing"),
             Entry("ok", "p2", "unreadable"), Entry("ok", "p1", "missing"),
             Entry("noPhotoId", "p1", "missing"), Entry("noFilename", "p1", "missing")}

Manifest(kind, hasFiles, iterable, files) ==
    [kind |-> kind, hasFiles |-> hasFiles, iterable |-> iterable, files |-> files]

ManifestSet ==
    {Manifest("absent", FALSE, FALSE, <<>>), Manifest("badjson", FALSE, FALSE, <<>>),
     Manifest("scalar", FALSE, FALSE, <<>>),
     Manifest("string", FALSE, FALSE, <<>>), Manifest("string", TRUE, FALSE, <<>>),
     Manifest("array", FALSE, FALSE, <<>>), Manifest("array", TRUE, FALSE, <<>>),
     Manifest("object", FALSE, FALSE, <<>>), Manifest("object", TRUE, FALSE, <<>>)}
    \cup {Manifest("object", TRUE, TRUE, fs) : fs \in UNION {[1..k -> EntrySet] : k \in 0..MaxFiles}}

\* 'files' in batch_config
contains_files(m) == IF m.kind = "scalar" THEN "raise" ELSE IF m.hasFiles THEN "true" ELSE "false"

None == "None"
BatchResult(id, fs, e) == [photoId |-> id, faces |-> fs, error |-> e]

\* process_single_image; the detector is called only for a readable image
process_single_image(photo_id, file, outcome) ==
    IF file = "missing" THEN [result |-> BatchResult(photo_id, <<>>, "image not found"), log |-> <<>>]
    ELSE IF file = "unreadable"
    THEN [result |-> BatchResult(photo_id, <<>>, "could not read image"), log |-> <<>>]
    ELSE IF outcome.threw
    THEN [result |-> BatchResult(photo_id, <<>>, "Processing error: get"), log |-> <<>>]
    ELSE LET n == NormalizeFaces(outcome.ret)
         IN  IF n.ok THEN [result |-> BatchResult(photo_id, n.out, None), log |-> n.log]
             ELSE [result |-> BatchResult(photo_id, <<>>, "Processing error: normalize"), log |-> n.log]

(***************************************************************************)
(* Output channels.  sysStdout is what Python's sys.stdout refers to:      *)
(* "real" (the process's stdout, `out`) or "buffer" (the StringIO, `buf`). *)
(***************************************************************************)
ErrObj(msg) == [src |-> "script", key |-> "error", val |-> msg]
FacesObj(fs) == [src |-> "script", key |-> "faces", val |-> fs]
ResultsObj(rs) == [src |-> "script", key |-> "results", val |-> rs]
Diag(op) == [src |-> "detector", key |-> "diag", val |-> op]

IO == [t |-> sysStdout, out |-> out, buf |-> buf]

\* a write through sys.stdout
write(io, item) ==
    IF io.t = "real" THEN [io EXCEPT !.out = Append(@, item)]
    ELSE [io EXCEPT !.buf = Append(@, item)]

with_exit_Mut(io, raised) == IF raised THEN io ELSE [io EXCEPT !.t = "real"]

\* redirect_stdout.__exit__: runs on every exit of the with block
with_exit(io, raised) == [io EXCEPT !.t = "real"]

handler_catches_Mut(exc) == TRUE

\* `except Exception`: SystemExit is not an Exception
handler_catches(exc) == exc = "Exception"

\* the top-level handler: print the error object, sys.exit(1)
except_Exception(io, msg) == write(io, ErrObj("Python script error: " \o msg))

\* print(json.dumps({"error": msg})); sys.exit(1) inside the try block
exit_with_error(io, msg) ==
    LET io1 == write(io, ErrObj(msg))
    IN  IF handler_catches("SystemExit") THEN except_Exception(io1, "1") ELSE io1

\* an Exception raised inside the try block
raise_in_main(io, msg) ==
    IF handler_catches("Exception") THEN except_Exception(io, msg) ELSE io

SetIO(io) == sysStdout' = io.t /\ out' = io.out /\ buf' = io.buf

Call(op, inst, printed, threw) == [op |-> op, inst |-> inst, printed |-> printed, threw |-> threw]

\* the detector's own print through sys.stdout
detector_print(io, op, printed) == IF printed THEN write(io, Diag(op)) ELSE io

NoGet == [entry |-> 0, called |-> FALSE, threw |-> FALSE, ret |-> <<>>]

GetOutcomes == {[threw |-> TRUE, ret |-> <<>>]} \cup {[threw |-> FALSE, ret |-> fs] : fs \in FaceSeqs}

EnvAllUnset == [n \in EnvNames |-> Unset]

EnvSamples == {EnvAllUnset,
               [EnvAllUnset EXCEPT !["LUMINA_INSIGHTFACE_DET_SIZE"] = SetTo(<<"1", ",", "1">>),
                                   !["LUMINA_INSIGHTFACE_CTX_ID"] = SetTo(<<"a">>)]}

NoManifest == Manifest("absent", FALSE, FALSE, <<>>)

Init ==
    /\ mode \in {"single", "batch"}
    /\ argv \in {<<>>, <<"path">>}
    /\ \/ mode = "single" /\ disk \in [path : FileStates, manifest : {NoManifest}]
       \/ mode = "batch" /\ disk \in [path : {"missing", "dir"}, manifest : ManifestSet]
    /\ env \in EnvSamples
    /\ verbose \in BOOLEAN
    /\ pc = "import"
    /\ imported = "pending"
    /\ sysStdout = "real"
    /\ out = <<>> /\ err = <<>> /\ buf = <<>>
    /\ status = 0
    /\ fa = 0
    /\ calls = <<>>
    /\ cfg = NoConfig
    /\ faces = <<>>
    /\ results = <<>>
    /\ idx = 0
    /\ lastGet = NoGet
    /\ tierLog = <<>>

Finish(io, st) == SetIO(io) /\ status' = st /\ pc' = "done"

\* import cv2; from insightface.app import FaceAnalysis
Import ==
    /\ pc = "import"
    /\ \E ok \in BOOLEAN :
        IF ok THEN /\ imported' = "ok" /\ pc' = "main"
                   /\ UNCHANGED <<sysStdout, out, buf, status>>
        ELSE /\ imported' = "failed"
             /\ Finish(write(IO, ErrObj("missing dependency")), 2)
    /\ UNCHANGED <<mode, argv, disk, env, verbose, err, fa, calls, cfg, faces, results, idx, lastGet, tierLog>>

single_precondition_error ==
    IF argv = <<>> THEN "missing image path"
    ELSE IF disk.path = "missing" THEN "image not found"
    ELSE IF disk.path = "unreadable" THEN "could not read image"
    ELSE "none"

batch_precondition_error ==
    IF argv = <<>> THEN "missing temp directory path"
    ELSE IF disk.path = "missing" THEN "temp directory not found"
    ELSE IF disk.manifest.kind = "absent" THEN "batch.json not found"
    ELSE IF disk.manifest.kind = "badjson" THEN "raise JSONDecodeError"
    ELSE IF contains_files(disk.manifest) = "raise" THEN "raise TypeError"
    ELSE IF contains_files(disk.manifest) = "false" THEN "batch.json missing 'files' array"
    ELSE "none"

\* the checks at the head of main, up to the redirected block
Preconditions ==
    /\ pc = "main"
    /\ LET e == IF mode = "single" THEN single_precondition_error ELSE batch_precondition_error
       IN  IF e = "none" THEN pc' = "setup" /\ UNCHANGED <<sysStdout, out, buf, status>>
           ELSE IF e = "raise JSONDecodeError" THEN Finish(raise_in_main(IO, "JSONDecodeError"), 1)
           ELSE IF e = "raise TypeError" THEN Finish(raise_in_main(IO, "TypeError"), 1)
           ELSE Finish(exit_with_error(IO, e), 1)
    /\ UNCHANGED <<mode, argv, disk, env, verbose, imported, err, fa, calls, cfg, faces, results, idx,
                   lastGet, tierLog>>

\* f = io.StringIO(); with redirect_stdout(f): read the configuration
Setup ==
    /\ pc = "setup"
    /\ sysStdout' = "buffer"
    /\ cfg' = ResolveConfig(env)
    /\ pc' = "construct"
    /\ UNCHANGED <<mode, argv, disk, env, verbose, imported, out, err, buf, status, fa, calls, faces,
                   results, idx, lastGet, tierLog>>

FallbackNeeded_Mut(threw) == TRUE

\* the except clause around the first construction
FallbackNeeded(threw) == threw

\* fa = FaceAnalysis(name=model_name, ...)
Construct ==
    /\ pc = "construct"
    /\ \E threw \in BOOLEAN :
        /\ calls' = Append(calls, Call("construct", 1, verbose, threw))
        /\ SetIO(detector_print(IO, "construct", verbose))
        /\ fa' = IF threw THEN fa ELSE 1
        /\ pc' = IF FallbackNeeded(threw) THEN "fallback" ELSE "prepare"
    /\ UNCHANGED <<mode, argv, disk, env, verbose, imported, err, status, cfg, faces, results, idx,
                   lastGet, tierLog>>

\* fa = FaceAnalysis(...) without a pack name; a raise leaves the block
ConstructDefault ==
    /\ pc = "fallback"
    /\ \E threw \in BOOLEAN :
        LET io1 == detector_print(IO, "construct_default", verbose)
        IN  /\ calls' = Append(calls, Call("construct_default", 2, verbose, threw))
            /\ IF threw
               THEN /\ Finish(raise_in_main(with_exit(io1, TRUE), "construct_default"), 1)
                    /\ fa' = fa
               ELSE /\ SetIO(io1) /\ fa' = 2 /\ pc' = "prepare" /\ status' = status
    /\ UNCHANGED <<mode, argv, disk, env, verbose, imported, err, cfg, faces, results, idx, lastGet, tierLog>>

\* fa.prepare(ctx_id=ctx_id, det_size=det_size); in batch mode the block ends here
Prepare ==
    /\ pc = "prepare"
    /\ \E threw \in BOOLEAN :
        LET io1 == detector_print(IO, "prepare", verbose)
        IN  /\ calls' = Append(calls, Call("prepare", fa, verbose, threw))
            /\ IF threw
               THEN Finish(raise_in_main(with_exit(io1, TRUE), "prepare"), 1)
               ELSE IF mode = "single"
               THEN SetIO(io1) /\ pc' = "get" /\ status' = status
               ELSE SetIO(with_exit(io1, FALSE)) /\ pc' = "flush" /\ status' = status
    /\ UNCHANGED <<mode, argv, disk, env, verbose, imported, err, fa, cfg, faces, results, idx, lastGet,
                   tierLog>>

\* faces = fa.get(img), the last statement of the single-image block
GetSingle ==
    /\ pc = "get"
    /\ \E o \in GetOutcomes :
        LET io1 == detector_print(IO, "get", verbose)
        IN  /\ calls' = Append(calls, Call("get", fa, verbose, o.threw))
            /\ lastGet' = [entry |-> 0, called |-> TRUE, threw |-> o.threw, ret |-> o.ret]
            /\ IF o.threw
               THEN Finish(raise_in_main(with_exit(io1, TRUE), "get"), 1) /\ faces' = faces
               ELSE /\ SetIO(with_exit(io1, FALSE)) /\ faces' = o.ret
                    /\ pc' = "flush" /\ status' = status
    /\ UNCHANGED <<mode, argv, disk, env, verbose, imported, err, fa, cfg, results, idx, tierLog>>

\* sys.stderr.write(f.getvalue())
Flush ==
    /\ pc = "flush"
    /\ err' = err \o buf
    /\ pc' = IF mode = "single" THEN "normalize" ELSE "loop"
    /\ UNCHANGED <<mode, argv, disk, env, verbose, imported, sysStdout, out, buf, status, fa, calls, cfg,
                   faces, results, idx, lastGet, tierLog>>

\* the normalisation loop and print(json.dumps({"faces": out}))
EmitFaces ==
    /\ pc = "normalize"
    /\ LET n == NormalizeFaces(faces)
       IN  /\ tierLog' = n.log
           /\ IF n.ok THEN Finish(write(IO, FacesObj(n.out)), status)
              ELSE Finish(raise_in_main(IO, "normalize"), 1)
    /\ UNCHANGED <<mode, argv, disk, env, verbose, imported, err, fa, calls, cfg, faces, results, idx,
                   lastGet>>

\* `for file_info in batch_config['files']` when the lookup or the iteration raises
IterRaise ==
    /\ pc = "loop"
    /\ ~disk.manifest.iterable
    /\ Finish(raise_in_main(IO, "TypeError"), 1)
    /\ UNCHANGED <<mode, argv, disk, env, verbose, imported, err, fa, calls, cfg, faces, results, idx,
                   lastGet, tierLog>>

\* one iteration of the batch loop
ProcessEntry ==
    /\ pc = "loop"
    /\ disk.manifest.iterable
    /\ idx < Len(disk.manifest.files)
    /\ LET e == disk.manifest.files[idx + 1]
       IN  IF e.form # "ok"
           THEN /\ Finish(raise_in_main(IO, "KeyError"), 1)
                /\ UNCHANGED <<calls, results, idx, lastGet, tierLog>>
           ELSE IF e.file # "image"
           THEN LET r == process_single_image(e.photoId, e.file, [threw |-> FALSE, ret |-> <<>>])
                IN  /\ results' = Append(results, r.result)
                    /\ idx' = idx + 1
                    /\ lastGet' = [NoGet EXCEPT !.entry = idx + 1]
                    /\ tierLog' = r.log
                    /\ UNCHANGED <<calls, sysStdout, out, buf, status, pc>>
           ELSE \E o \in GetOutcomes :
                LET r == process_single_image(e.photoId, e.file, o)
                IN  /\ calls' = Append(calls, Call("get", fa, verbose, o.threw))
                    /\ SetIO(detector_print(IO, "get", verbose))
                    /\ results' = Append(results, r.result)
                    /\ idx' = idx + 1
                    /\ lastGet' = [entry |-> idx + 1, called |-> TRUE, threw |-> o.threw, ret |-> o.ret]
                    /\ tierLog' = r.log
                    /\ UNCHANGED <<status, pc>>
    /\ UNCHANGED <<mode, argv, disk, env, verbose, imported, err, fa, cfg, faces>>

\* print(json.dumps({"results": results}))
PrintResults ==
    /\ pc = "loop"
    /\ disk.manifest.iterable
    /\ idx = Len(disk.manifest.files)
    /\ Finish(write(IO, ResultsObj(results)), status)
    /\ UNCHANGED <<mode, argv, disk, env, verbose, imported, err, fa, calls, cfg, faces, results, idx,
                   lastGet, tierLog>>

Next ==
    \/ Import
    \/ Preconditions
    \/ Setup
    \/ Construct
    \/ ConstructDefault
    \/ Prepare
    \/ GetSingle
    \/ Flush
    \/ EmitFaces
    \/ IterRaise
    \/ ProcessEntry
    \/ PrintResults

Spec == Init /\ [][Next]_vars

(***************************************************************************)
(* Configuration resolution on its own: the program stands at the head of  *)
(* the redirected block of the single-image script with one environment    *)
(* variable set to an arbitrary bounded string (or all unset).             *)
(***************************************************************************)
EnvOneSet == {EnvAllUnset} \cup {[EnvAllUnset EXCEPT ![n] = SetTo(s)] : n \in EnvNames, s \in Str(MaxLen)}

InitConfig ==
    /\ mode = "single"
    /\ argv = <<"path">>
    /\ disk = [path |-> "image", manifest |-> NoManifest]
    /\ env \in EnvOneSet
    /\ verbose = FALSE
    /\ pc = "setup"
    /\ imported = "ok"
    /\ sysStdout = "real"
    /\ out = <<>> /\ err = <<>> /\ buf = <<>>
    /\ status = 0
    /\ fa = 0
    /\ calls = <<>>
    /\ cfg = NoConfig
    /\ faces = <<>>
    /\ results = <<>>
    /\ idx = 0
    /\ lastGet = NoGet
    /\ tierLog = <<>>

SpecConfig == InitConfig /\ [][Setup]_vars

(***************************************************************************)
(* Properties.                                                             *)
(***************************************************************************)
IsScriptItem(x) == x.src = "script"
ScriptItems == SelectSeq(out, IsScriptItem)
IsDiagItem(x) == x.src = "detector"
IsPrintedCall(c) == c.printed
LastCall == calls[Len(calls)]
DetectorPrepared == \E i \in DOMAIN calls : calls[i].op = "prepare" /\ ~calls[i].threw
Files == disk.manifest.files

\* the manifest passed every manifest-level check and "files" is an array
\* of objects that each name a photoId
BatchReady ==
    /\ mode = "batch" /\ argv # <<>> /\ disk.path = "dir"
    /\ disk.manifest.kind = "object" /\ disk.manifest.hasFiles /\ disk.manifest.iterable
    /\ \A i \in DOMAIN disk.manifest.files : disk.manifest.files[i].form # "noPhotoId"

\* C1: no detector text ever reaches the process's stdout, and when a run
\* ends with its result every text the detector printed is on stderr.
C1_DetectorTextOnlyOnStderr ==
    /\ \A i \in DOMAIN out : out[i].src = "script"
    /\ (pc = "done" /\ status = 0) =>
         Len(SelectSeq(err, IsDiagItem)) = Len(SelectSeq(calls, IsPrintedCall))

\* C2: a batch run whose manifest passed the checks and whose detector was
\* prepared ends by printing results with one BatchResult per manifest
\* entry, in manifest order.
C2_OneResultPerEntry ==
    (pc = "done" /\ BatchReady /\ DetectorPrepared) =>
        /\ ScriptItems # <<>>
        /\ LET o == ScriptItems[Len(ScriptItems)]
           IN  /\ o.key = "results"
               /\ Len(o.val) = Len(Files)
               /\ \A i \in DOMAIN Files : o.val[i].photoId = Files[i].photoId

FailingEntry(e) == e.form = "ok" /\ e.file \in {"missing", "unreadable"}

\* C3: a batch run with an entry whose file is missing or unreadable, or
\* whose inference raised, still ends with status 0 and a results object in
\* which that entry has no faces and an error string.
C3_FailureIsolated ==
    (pc = "done" /\ BatchReady /\ DetectorPrepared
        /\ (\/ \E i \in DOMAIN Files : FailingEntry(Files[i])
            \/ lastGet.called /\ lastGet.threw)) =>
        /\ status = 0
        /\ ScriptItems # <<>>
        /\ LET o == ScriptItems[Len(ScriptItems)]
           IN  /\ o.key = "results"
               /\ \A i \in DOMAIN Files : FailingEntry(Files[i]) =>
                     /\ i \in DOMAIN o.val
                     /\ o.val[i].faces = <<>>
                     /\ o.val[i].error # None
               /\ (lastGet.called /\ lastGet.threw) =>
                     /\ lastGet.entry \in DOMAIN o.val
                     /\ o.val[lastGet.entry].faces = <<>>
                     /\ o.val[lastGet.entry].error # None

\* C4: a run prints nothing of its own until it ends, and then exactly one
\* JSON object whose kind agrees with the exit status: faces/results with 0,
\* error with 1, error with 2 exactly when the import failed (and then
\* nothing else was attempted).
C4_OneObjectMatchingStatus ==
    /\ pc # "done" => ScriptItems = <<>>
    /\ pc = "done" =>
         /\ Len(ScriptItems) = 1
         /\ LET o == ScriptItems[1]
            IN  /\ status \in {0, 1, 2}
                /\ (status = 0) <=> (o.key \in {"faces", "results"})
                /\ (status \in {1, 2}) <=> (o.key = "error")
                /\ (status = 2) <=> (imported = "failed")
                /\ o.key = "faces" => mode = "single"
                /\ o.key = "results" => mode = "batch"
                /\ imported = "failed" =>
                     /\ o = ErrObj("missing dependency")
                     /\ calls = <<>> /\ cfg = NoConfig /\ results = <<>>

C4_Witness ==
    /\ pc = "done" /\ status = 1 /\ mode = "batch"
    /\ Len(results) > 0
    /\ Len(ScriptItems) = 1 /\ ScriptItems[1].key = "error"

\* a manifest-level check fails: no directory, no batch.json, no JSON, or
\* the parsed manifest is not an object with a "files" key
ManifestCheckFails ==
    /\ mode = "batch" /\ argv # <<>>
    /\ \/ disk.path = "missing"
       \/ disk.manifest.kind \in {"absent", "badjson"}
       \/ ~(disk.manifest.kind = "object" /\ disk.manifest.hasFiles)

\* C5: when a manifest-level check fails the detector is never constructed,
\* no image is processed and the run ends with an error object and status
\* 1; an object without the key gives the "missing 'files' array" message.
C5_CheckFailureStopsBeforeDetector ==
    ManifestCheckFails =>
        /\ calls = <<>>
        /\ results = <<>>
        /\ (pc = "done" /\ imported = "ok") =>
             /\ status = 1
             /\ Len(ScriptItems) = 1
             /\ ScriptItems[1].key = "error"
             /\ (disk.path = "dir" /\ disk.manifest.kind = "object") =>
                   ScriptItems[1].val = "batch.json missing 'files' array"

EmbeddingsAreLists(fs) == \A j \in DOMAIN fs : fs[j].embedding.t = "list"

NoEmbedding(f) == f.emb \in {"noattr", "none", "empty"}

EmptyWhereAbsent(raw, emitted) ==
    /\ Len(emitted) = Len(raw)
    /\ \A j \in DOMAIN raw : NoEmbedding(raw[j]) => emitted[j].embedding = JList(<<>>)

\* C6: every emitted face object carries a list under "embedding", which is
\* the empty list when the detector's record has no embedding attribute, a
\* null embedding or an empty one.
C6_EmbeddingAlwaysList ==
    /\ \A i \in DOMAIN out :
         /\ out[i].key = "faces" => EmbeddingsAreLists(out[i].val)
         /\ out[i].key = "results" =>
              \A k \in DOMAIN out[i].val : EmbeddingsAreLists(out[i].val[k].faces)
    /\ \A k \in DOMAIN results : EmbeddingsAreLists(results[k].faces)
    /\ (mode = "single" /\ pc = "done" /\ status = 0) =>
          EmptyWhereAbsent(lastGet.ret, ScriptItems[1].val)
    /\ (mode = "batch" /\ lastGet.called /\ lastGet.entry \in DOMAIN results
          /\ results[lastGet.entry].error = None) =>
          EmptyWhereAbsent(lastGet.ret, results[lastGet.entry].faces)

C6_Witness ==
    /\ mode = "batch" /\ pc = "done" /\ status = 0
    /\ lastGet.called /\ lastGet.ret # <<>> /\ lastGet.ret[1].emb = "none"
    /\ ScriptItems[1].val[lastGet.entry].faces[1].embedding = JList(<<>>)

Has(v, c) == \E i \in DOMAIN v : v[i] = c
CountOf(v, c) == Cardinality({i \in DOMAIN v : v[i] = c})
Blank(e) == ~e.present \/ \A i \in DOMAIN e.val : e.val[i] = " "
EnvIs(n, s) == env[n] = SetTo(s)

\* C7: the resolved configuration is always well formed; a detection size
\* that is not two positive integers gives (640,640), a provider list with
\* no non-blank segment gives the single default provider, a context id that
\* is not an integer gives -1, a blank model name gives "buffalo_l".
C7_ConfigTotal ==
    pc = "construct" =>
        LET d == env["LUMINA_INSIGHTFACE_DET_SIZE"]
            p == env["LUMINA_INSIGHTFACE_PROVIDERS"]
            c == env["LUMINA_INSIGHTFACE_CTX_ID"]
            m == env["LUMINA_INSIGHTFACE_MODEL"]
        IN  /\ cfg.det_size[1] > 0 /\ cfg.det_size[2] > 0
            /\ (Blank(d) \/ CountOf(d.val, ",") # 1 \/ Has(d.val, "a") \/ Has(d.val, "-"))
                  => cfg.det_size = <<640, 640>>
            /\ EnvIs("LUMINA_INSIGHTFACE_DET_SIZE", <<"0", ",", "1">>) => cfg.det_size = <<640, 640>>
            /\ EnvIs("LUMINA_INSIGHTFACE_DET_SIZE", <<"1", ",", "0", "0">>) => cfg.det_size = <<640, 640>>
            /\ EnvIs("LUMINA_INSIGHTFACE_DET_SIZE", <<"1", "0", ",", " ", "1">>) => cfg.det_size = <<10, 1>>
            /\ cfg.providers # <<>>
            /\ \A i \in DOMAIN cfg.providers :
                  /\ cfg.providers[i] # <<>>
                  /\ ~Has(cfg.providers[i], ",")
                  /\ cfg.providers[i][1] # " "
                  /\ cfg.providers[i][Len(cfg.providers[i])] # " "
            /\ (Blank(p) \/ \A i \in DOMAIN p.val : p.val[i] \in {",", " "})
                  => cfg.providers = <<DefaultProvider>>
            /\ EnvIs("LUMINA_INSIGHTFACE_PROVIDERS", <<"a", ",", ",", " ", "1">>)
                  => cfg.providers = <<(<<"a">>), (<<"1">>)>>
            /\ cfg.ctx_id \in Int
            /\ (Blank(c) \/ Has(c.val, "a") \/ Has(c.val, ",")) => cfg.ctx_id = 0 - 1
            /\ EnvIs("LUMINA_INSIGHTFACE_CTX_ID", <<"1", " ", "1">>) => cfg.ctx_id = 0 - 1
            /\ EnvIs("LUMINA_INSIGHTFACE_CTX_ID", <<"-">>) => cfg.ctx_id = 0 - 1
            /\ EnvIs("LUMINA_INSIGHTFACE_CTX_ID", <<" ", "1", "0">>) => cfg.ctx_id = 10
            /\ cfg.model_name = IF Blank(m) THEN DefaultModel ELSE m.val

C7_Witness ==
    /\ pc = "construct"
    /\ EnvIs("LUMINA_INSIGHTFACE_DET_SIZE", <<"0", ",", "1">>)
    /\ cfg.det_size = <<640, 640>>

\* a detector call inside the redirected block raised
RaisedInBlock ==
    /\ calls # <<>> /\ LastCall.threw
    /\ \/ LastCall.op \in {"construct_default", "prepare"}
       \/ mode = "single" /\ LastCall.op = "get"

\* C8: the redirect is in force only inside the block; the script's own
\* JSON never lands in the capture buffer, and a raise inside the block is
\* reported as a "Python script error" object on real stdout with status 1.
C8_RedirectReleased ==
    /\ \A i \in DOMAIN buf : buf[i].src = "detector"
    /\ sysStdout = "buffer" => pc \in {"construct", "fallback", "prepare", "get"}
    /\ pc = "done" => sysStdout = "real"
    /\ (pc = "done" /\ RaisedInBlock) =>
          /\ status = 1
          /\ ScriptItems = <<ErrObj("Python script error: " \o LastCall.op)>>

C8_Witness ==
    /\ pc = "done" /\ RaisedInBlock /\ LastCall.op = "prepare"
    /\ buf # <<>>

IsGet(c) == c.op = "get"
IsPrepare(c) == c.op = "prepare"
IsDefault(c) == c.op = "construct_default"

\* C9: the configured pack is constructed first, the default pack only
\* after that raised and at most once, prepare runs once on the constructed
\* instance before any inference, every inference uses that instance, and
\* a raise of the fallback or of prepare ends the run with status 1 and
\* without inference.
C9_OneDetector ==
    /\ calls # <<>> => calls[1].op = "construct"
    /\ \A i \in DOMAIN calls :
         /\ calls[i].op = "construct" => i = 1
         /\ calls[i].op = "construct_default" => i = 2 /\ calls[1].threw
         /\ calls[i].op = "prepare" =>
              /\ i > 1 => ~calls[i - 1].threw /\ calls[i - 1].op \in {"construct", "construct_default"}
              /\ i > 1 => calls[i].inst = calls[i - 1].inst
              /\ i \in {2, 3}
         /\ calls[i].op = "get" =>
              \E k \in 1..(i - 1) :
                  /\ calls[k].op = "prepare" /\ ~calls[k].threw
                  /\ calls[i].inst = calls[k].inst
                  /\ calls[i].inst = fa
    /\ Len(SelectSeq(calls, IsPrepare)) <= 1
    /\ Len(SelectSeq(calls, IsDefault)) <= 1
    /\ Len(SelectSeq(calls, IsGet)) <= (IF mode = "single" THEN 1 ELSE idx)
    /\ (pc \in {"flush", "loop", "normalize", "get"}) => Len(SelectSeq(calls, IsPrepare)) = 1
    /\ (calls # <<>> /\ LastCall.threw /\ LastCall.op \in {"construct_default", "prepare"}) =>
          /\ pc = "done" /\ status = 1
          /\ SelectSeq(calls, IsGet) = <<>>

C9_Witness ==
    /\ pc = "done" /\ status = 0 /\ mode = "batch"
    /\ Len(calls) = 5
    /\ calls[1].threw /\ calls[2].op = "construct_default"
    /\ calls[4].op = "get" /\ calls[5].op = "get" /\ calls[5].inst = 2

\* C10 as stated: for the bounding box and for the embedding alike, tolist
\* is attempted only right after the direct coercion of that attribute
\* raised.
C10_TolistOnlyAfterDirect ==
    \A n \in DOMAIN tierLog :
        LET L == tierLog[n]
        IN  \A k \in DOMAIN L :
              /\ L[k].tier = "bbox.tolist" => k > 1 /\ L[k - 1] = Attempt("bbox.direct", TRUE)
              /\ L[k].tier = "emb.tolist" => k > 1 /\ L[k - 1] = Attempt("emb.direct", TRUE)

\* C10 amended: the bounding box is coerced directly first and by tolist
\* only after that raised; the embedding goes through tolist first and is
\* coerced directly only after tolist raised; no tier follows a tier of the
\* same attribute that succeeded.
C10_TierOrder ==
    \A n \in DOMAIN tierLog :
        LET L == tierLog[n]
        IN  /\ L # <<>> => L[1].tier = "bbox.direct"
            /\ \A k \in DOMAIN L :
                 /\ L[k].tier = "bbox.direct" => k = 1
                 /\ L[k].tier = "bbox.tolist" => k = 2 /\ L[1] = Attempt("bbox.direct", TRUE)
                 /\ L[k].tier = "emb.direct" => k > 1 /\ L[k - 1] = Attempt("emb.tolist", TRUE)
                 /\ L[k].tier = "emb.tolist" =>
                      /\ k > 1 /\ ~L[k - 1].threw
                      /\ L[k - 1].tier \in {"bbox.direct", "bbox.tolist"}
                 /\ (~L[k].threw /\ k < Len(L)) =>
                      /\ L[k].tier \in {"bbox.direct", "bbox.tolist"}
                      /\ L[k + 1].tier = "emb.tolist"

C10_Witness ==
    /\ pc = "done" /\ mode = "single" /\ status = 0
    /\ tierLog = <<(<<Attempt("bbox.direct", TRUE), Attempt("bbox.tolist", FALSE),
                      Attempt("emb.tolist", TRUE), Attempt("emb.direct", FALSE)>>)>>
====
